---- MODULE Spec2Model ----
(***************************************************************************)
(* Model of Luma's GPU execution engine (src/src/execution.rs): the        *)
(* Executor with its adapter, shader registry and Buffer Table, the        *)
(* operations setup_buffers, execute_op and drop, and the wgpu objects     *)
(* they drive (buffers, the device queue, the staging buffer's mapping,    *)
(* the flume channel that carries the mapping notification).               *)
(*                                                                         *)
(* A u32 is kept as two 16-bit halves <<lo, hi>> (value lo + 65536 * hi),  *)
(* a buffer as its sequence of bytes, so that the casts between host       *)
(* values and buffer bytes and the wrap-around of 32-bit arithmetic are    *)
(* computed, not assumed.                                                  *)
(***************************************************************************)
EXTENDS Integers, Sequences, FiniteSets, TLC

\* ---------------------------------------------------------------- bounds
MaxLen == 3         \* longest data slice handed to setup_buffers
MaxRuns == 2        \* dispatches submitted on one buffer set before callers stop

\* the callers that may be inside the Executor at the same time
Threads == {1, 2}

\* the identifiers callers use (the String keys of the Buffer Table)
Ids == {"a", "b"}

VARIABLES
    ex,        \* the shared Executor: adapter, shaders (execution.rs:61-65)
    ctxs,      \* GpuHandles (device/queue pairs) created so far
    buffers,   \* Executor.buffers: the Buffer Table, id -> Buffers
    lock,      \* the RwLock around the table: readers, writer, poisoned
    pc,        \* where each caller stands
    call,      \* the arguments and locals of each caller's current call
    queue,     \* command buffers submitted to the device, not yet run
    chan,      \* per call: the flume::bounded(1) channel of the map callback
    last,      \* what the most recently finished call gave its caller
    wrapper    \* the layer above the Executor: the static's cell, the arrays created

code == <<ex, ctxs, buffers, lock, pc, call, queue, chan, last>>
vars == <<ex, ctxs, buffers, lock, pc, call, queue, chan, last, wrapper>>

\* ------------------------------------------------------- values and casts

\* Operation (execution.rs:41-47)
Operation == {"DOUBLE", "ADD", "SUBTRACT", "MULTIPLY", "DIVIDE"}

\* decode_operation (execution.rs:15-23)
decode_operation(op) ==
    CASE op = "DOUBLE" -> "double"
      [] op = "ADD" -> "add"
      [] op = "SUBTRACT" -> "subtract"
      [] op = "MULTIPLY" -> "multiply"
      [] op = "DIVIDE" -> "divide"

\* the operations callers ask for: one whose shader the directory can hold, one
\* whose shader it never holds
Requested == {"DOUBLE", "ADD"}

\* a u32 from a small natural
U(n) == <<n % 65536, n \div 65536>>

\* x + 1 in 32 bits
Succ32(x) ==
    IF x[1] < 65535 THEN <<x[1] + 1, x[2]>>
    ELSE <<0, (x[2] + 1) % 65536>>

RECURSIVE Ramp(_, _)
\* the slice base, base + 1, ..., of n elements
Ramp(base, n) ==
    IF n = 0 THEN <<>> ELSE <<base>> \o Ramp(Succ32(base), n - 1)

\* the first elements of the slices callers pass: 1 and 0x7FFFFFFF
Bases == {U(1), <<65535, 32767>>}

\* the data slices callers pass to setup_buffers
DataInputs == {Ramp(b, n) : b \in Bases, n \in {MaxLen}}

\* the k-th byte (0..3) of a u32 in memory, little-endian
ByteOf(x, k) ==
    CASE k = 0 -> x[1] % 256
      [] k = 1 -> x[1] \div 256
      [] k = 2 -> x[2] % 256
      [] k = 3 -> x[2] \div 256

\* bytemuck::cast_slice::<u32, u8> (execution.rs:125)
CastU32ToBytes(data) ==
    [i \in 1..(4 * Len(data)) |-> ByteOf(data[((i - 1) \div 4) + 1], (i - 1) % 4)]

\* bytemuck::cast_slice::<u8, u32> (execution.rs:293)
CastBytesToU32(bytes) ==
    [i \in 1..(Len(bytes) \div 4) |->
        <<bytes[4 * i - 3] + 256 * bytes[4 * i - 2],
          bytes[4 * i - 1] + 256 * bytes[4 * i]>>]

\* size_of::<usize>() on the 64-bit targets wgpu's primary backends run on
UsizeBytes == 8

\* bytemuck::cast_slice::<usize, u8> of the dimensions (execution.rs:144)
CastUsizeToBytes(dims) ==
    [i \in 1..(UsizeBytes * Len(dims)) |->
        LET d == dims[((i - 1) \div UsizeBytes) + 1]
            k == (i - 1) % UsizeBytes
        IN  IF k = 0 THEN d % 256
            ELSE IF k = 1 THEN (d \div 256) % 256
            ELSE 0]

\* the contents of a buffer created without data: wgpu zero-initialises
Zeros(n) == [i \in 1..n |-> 0]


\* ------------------------------------------------------------ the records

\* Executor::default (execution.rs:67-75) before any constructor has run:
\* no Executor value exists yet
NoExecutor == [built |-> FALSE, adapter |-> 0, hasShaders |-> FALSE, shaders |-> {}]

\* a caller outside every call
IdleCall == [fn |-> "none", id |-> "", op |-> "none",
             bufs |-> <<>>, before |-> <<>>, result |-> <<>>]

\* what a finished call gave its caller: Ok, Err(msg) or a panic
Outcome(t, fn, id, res, msg, val) ==
    [fn |-> fn, id |-> id, res |-> res, msg |-> msg, val |-> val]

\* the message of a panic raised by unwrap() on None
UnwrapNone == "called Option::unwrap() on a None value"

\* RwLock::new (execution.rs:72)
FreeLock == [readers |-> {}, writer |-> 0, poisoned |-> FALSE]

\* a guard dropped, by return or by unwinding; a write guard dropped while its
\* thread panics poisons the lock (std::sync::RwLock)
Release(l, t, panicking) ==
    [readers |-> l.readers \ {t},
     writer |-> IF l.writer = t THEN 0 ELSE l.writer,
     poisoned |-> l.poisoned \/ (panicking /\ l.writer = t)]

\* drop that leaves the entry in the table
Remove_Kept(tbl, id) == tbl

\* a table emptied by the removal of one key
Remove_All(tbl, id) == <<>>

\* the table with key id removed: HashMap::remove (execution.rs:105)
Remove(tbl, id) == [k \in DOMAIN tbl \ {id} |-> tbl[k]]

\* an insert that keeps the buffer set an identifier already has
Insert_KeepOld(tbl, id, b) ==
    [k \in DOMAIN tbl \cup {id} |-> IF k \in DOMAIN tbl THEN tbl[k] ELSE b]

\* the table with id bound to b: HashMap::insert (execution.rs:149-156)
Insert(tbl, id, b) == [k \in DOMAIN tbl \cup {id} |-> IF k = id THEN b ELSE tbl[k]]

\* the queue without the command buffers that use the buffers of id: once id's
\* entry is removed or replaced, nothing reads what those commands write
Forget(q, id) == SelectSeq(q, LAMBDA cmd : cmd.id # id)

\* ----------------------------------------------------------- construction

\* what the platform answers during Executor::new: whether an adapter is
\* found, whether the device request is granted, whether the shader
\* directory can be read, the path separator, and the files in the directory
ShaderFile(stem, ext) == [stem |-> stem, ext |-> ext]
DirListings == {{}, {ShaderFile("double", ".wgsl")},
                {ShaderFile("double", ".wgsl"), ShaderFile("README", ".md")}}
Platforms ==
    [found : BOOLEAN, devOk : BOOLEAN, dirOk : BOOLEAN,
     sep : {"\\", "/"}, files : DirListings]

\* the loop of add_shader_modules_from_directory (execution.rs:394-412) on
\* one path <dir><sep><stem><ext>: strip_prefix(dir), strip_prefix("\\"),
\* strip_suffix(".wgsl"), each unwrapped
FileNameOk(sep, f) == sep = "\\" /\ f.ext = ".wgsl"

\* add_shader_modules_from_directory (execution.rs:380-415)
add_shader_modules_from_directory(p) ==
    IF ~p.dirOk THEN [kind |-> "None", keys |-> {}]
    ELSE IF \E f \in p.files : ~FileNameOk(p.sep, f) THEN [kind |-> "panic", keys |-> {}]
    ELSE [kind |-> "Some", keys |-> {f.stem : f \in p.files}]

\* get_adapter_info (execution.rs:314-357)
get_adapter_info(p) ==
    IF ~p.found THEN "Err"
    ELSE IF ~p.devOk THEN "panic"
    ELSE "Ok"

Init ==
    /\ ex = NoExecutor
    /\ ctxs = 0
    /\ buffers = <<>>
    /\ lock = FreeLock
    /\ pc = [t \in Threads |-> "idle"]
    /\ call = [t \in Threads |-> IdleCall]
    /\ queue = <<>>
    /\ chan = [t \in Threads |-> <<>>]
    /\ last = Outcome(0, "none", "", "none", "", <<>>)
    /\ wrapper = [cell |-> "empty", by |-> 0, arrays |-> <<>>]

\* Executor::default (execution.rs:67-75) used as the Executor
ExecutorDefault(t) ==
    /\ pc[t] = "idle"
    /\ ~ex.built
    /\ ex' = [built |-> TRUE, adapter |-> 0, hasShaders |-> FALSE, shaders |-> {}]
    /\ last' = Outcome(t, "default", "", "Ok", "", <<>>)
    /\ UNCHANGED <<ctxs, buffers, lock, pc, call, queue, chan, wrapper>>

\* Executor::new (execution.rs:80-96)
new(t, p) ==
    /\ pc[t] = "idle"
    /\ ~ex.built
    /\ LET a == get_adapter_info(p)
           s == add_shader_modules_from_directory(p)
       IN  IF a = "Err" THEN
               /\ last' = Outcome(t, "new", "", "Err", "Found no adapters.", <<>>)
               /\ UNCHANGED <<ex, ctxs, pc>>
           ELSE IF a = "panic" THEN
               /\ last' = Outcome(t, "new", "", "panic", "Error requesting device.", <<>>)
               /\ pc' = [pc EXCEPT ![t] = "panicked"]
               /\ UNCHANGED <<ex, ctxs>>
           ELSE IF s.kind = "panic" THEN
               /\ last' = Outcome(t, "new", "", "panic", UnwrapNone, <<>>)
               /\ pc' = [pc EXCEPT ![t] = "panicked"]
               /\ ctxs' = ctxs + 1
               /\ UNCHANGED ex
           ELSE
               /\ ex' = [built |-> TRUE, adapter |-> ctxs + 1,
                         hasShaders |-> s.kind = "Some", shaders |-> s.keys]
               /\ ctxs' = ctxs + 1
               /\ last' = Outcome(t, "new", "", "Ok", "", <<>>)
               /\ UNCHANGED pc
    /\ UNCHANGED <<buffers, lock, call, queue, chan>>

\* Executor::new called directly, as main does (main.rs:142)
ExecutorNew(t, p) == new(t, p) /\ UNCHANGED wrapper

\* ------------------------------------------------------------------- drop

\* a drop that takes the table without waiting for the read guards
DropLock_PastReaders(t, id) ==
    /\ pc[t] = "idle"
    /\ ex.built
    /\ lock.writer = 0
    /\ ~lock.poisoned
    /\ lock' = [lock EXCEPT !.writer = t]
    /\ pc' = [pc EXCEPT ![t] = "drop_locked"]
    /\ call' = [call EXCEPT ![t] = [IdleCall EXCEPT !.fn = "drop", !.id = id]]
    /\ UNCHANGED <<ex, ctxs, buffers, queue, chan, last, wrapper>>

\* Executor::drop (execution.rs:104-106), self.buffers.write().unwrap():
\* waits until no guard is held; panics if the lock is poisoned
DropLock(t, id) ==
    /\ pc[t] = "idle"
    /\ ex.built
    /\ lock.readers = {} /\ lock.writer = 0
    /\ IF lock.poisoned THEN
           /\ pc' = [pc EXCEPT ![t] = "panicked"]
           /\ last' = Outcome(t, "drop", id, "panic", "PoisonError", <<>>)
           /\ UNCHANGED <<lock, call>>
       ELSE
           /\ lock' = [lock EXCEPT !.writer = t]
           /\ pc' = [pc EXCEPT ![t] = "drop_locked"]
           /\ call' = [call EXCEPT ![t] = [IdleCall EXCEPT !.fn = "drop", !.id = id]]
           /\ UNCHANGED last
    /\ UNCHANGED <<ex, ctxs, buffers, queue, chan, wrapper>>

\* Executor::drop (execution.rs:105), .remove(id), the guard dropped at the
\* end of the statement
DropRemove(t) ==
    /\ pc[t] = "drop_locked"
    /\ buffers' = Remove(buffers, call[t].id)
    /\ lock' = Release(lock, t, FALSE)
    /\ pc' = [pc EXCEPT ![t] = "idle"]
    /\ call' = [call EXCEPT ![t] = IdleCall]
    /\ queue' = Forget(queue, call[t].id)
    /\ last' = Outcome(t, "drop", call[t].id, "Ok",
                        IF call[t].id \in DOMAIN buffers THEN "removed" ELSE "absent", <<>>)
    /\ UNCHANGED <<ex, ctxs, chan, wrapper>>

\* ---------------------------------------------------------- setup_buffers

\* a staging buffer sized by the number of elements, not by storage's size
NewBuffers_StagingByCount(dims, data) ==
    [src |-> data,
     storage |-> CastU32ToBytes(data),
     staging |-> Zeros(Len(data)),
     dims |-> CastUsizeToBytes(dims),
     map |-> "Idle", mapper |-> 0, views |-> 0, runs |-> 0]

\* the three buffers of setup_buffers (execution.rs:121-147): storage holds
\* the data's bytes, staging has storage's size, dimensions the shape's bytes
NewBuffers(dims, data) ==
    LET storage == CastU32ToBytes(data)
    IN  [src |-> data,
         storage |-> storage,
         staging |-> Zeros(Len(storage)),
         dims |-> CastUsizeToBytes(dims),
         map |-> "Idle", mapper |-> 0, views |-> 0, runs |-> 0]

\* the shape callers pass with a slice of n elements
ShapeOf(data) == <<Len(data), 1, 1, 1>>

\* setup_buffers without the check of self.adapter
setup_buffers_Unchecked(t, dims, data, id) ==
    /\ pc[t] = "idle"
    /\ ex.built
    /\ lock.readers = {} /\ lock.writer = 0
    /\ ~lock.poisoned
    /\ lock' = [lock EXCEPT !.writer = t]
    /\ pc' = [pc EXCEPT ![t] = "setup_locked"]
    /\ call' = [call EXCEPT ![t] =
                  [IdleCall EXCEPT !.fn = "setup_buffers", !.id = id,
                                   !.bufs = <<NewBuffers(dims, data)>>]]
    /\ UNCHANGED <<ex, ctxs, buffers, queue, chan, last>>

\* Executor::setup_buffers (execution.rs:109-149): the adapter check, the
\* buffers, then self.buffers.write().unwrap()
setup_buffers(t, dims, data, id) ==
    /\ pc[t] = "idle"
    /\ ex.built
    /\ IF ex.adapter = 0 THEN
           /\ last' = Outcome(t, "setup_buffers", id, "Err", "No operations loaded", <<>>)
           /\ UNCHANGED <<lock, pc, call>>
       ELSE
           /\ lock.readers = {} /\ lock.writer = 0
           /\ IF lock.poisoned THEN
                  /\ pc' = [pc EXCEPT ![t] = "panicked"]
                  /\ last' = Outcome(t, "setup_buffers", id, "panic", "PoisonError", <<>>)
                  /\ UNCHANGED <<lock, call>>
              ELSE
                  /\ lock' = [lock EXCEPT !.writer = t]
                  /\ pc' = [pc EXCEPT ![t] = "setup_locked"]
                  /\ call' = [call EXCEPT ![t] =
                                [IdleCall EXCEPT !.fn = "setup_buffers", !.id = id,
                                     !.bufs = <<NewBuffers(dims, data)>>]]
                  /\ UNCHANGED last
    /\ UNCHANGED <<ex, ctxs, buffers, queue, chan>>

\* setup_buffers called with an identifier of the caller's choice
SetupBuffers(t, dims, data, id) == setup_buffers(t, dims, data, id) /\ UNCHANGED wrapper

\* Executor::setup_buffers (execution.rs:149-158): .insert(id, Buffers {..}),
\* the guard dropped, Ok(())
SetupInsert(t) ==
    /\ pc[t] = "setup_locked"
    /\ buffers' = Insert(buffers, call[t].id, call[t].bufs[1])
    /\ lock' = Release(lock, t, FALSE)
    /\ pc' = [pc EXCEPT ![t] = "idle"]
    /\ call' = [call EXCEPT ![t] = IdleCall]
    /\ queue' = Forget(queue, call[t].id)
    /\ last' = Outcome(t, "setup_buffers", call[t].id, "Ok",
                        IF call[t].id \in DOMAIN buffers THEN "replaced" ELSE "", <<>>)
    /\ UNCHANGED <<ex, ctxs, chan, wrapper>>


\* ------------------------------------------------------------- the device

\* byte j of the storage buffer after the double shader has doubled the
\* 32-bit word the byte belongs to: the carry out of the byte below it comes in
DoubleByte(bytes, j) ==
    (2 * bytes[j] + (IF (j - 1) % 4 = 0 THEN 0 ELSE bytes[j - 1] \div 128)) % 256

\* the compute pass: invocation w (0-based, one per workgroup) runs the
\* shader's main on element w; invocations past the last element touch nothing
RunShader(key, storage, groups) ==
    [j \in 1..Len(storage) |->
        IF key = "double" /\ (j - 1) \div 4 < groups
        THEN DoubleByte(storage, j) ELSE storage[j]]

\* a dispatch of a single workgroup whatever the buffer holds
Workgroups_One(b) == 1

\* binding 1 as a shader declaring four u32 reads it: the first sixteen bytes
\* of dimensions_buffer.as_entire_binding() (execution.rs:225-228)
ShapeSeen(b) == SubSeq(CastBytesToU32(b.dims), 1, 4)

\* cpass.dispatch_workgroups(storage_buffer.size() as u32, 1, 1)
\* (execution.rs:262): the workgroup count in x
Workgroups(b) == Len(b.storage)

\* encoder.copy_buffer_to_buffer(storage, 0, staging, 0, size)
\* (execution.rs:266-272)
CopyBufferToBuffer(src, dst, size) ==
    [j \in 1..Len(dst) |-> IF j <= size THEN src[j] ELSE dst[j]]

\* the command buffer execute_op records (execution.rs:252-272): the compute
\* pass, then the copy of staging_buffer.size() bytes
Command(c, b) ==
    [id |-> c.id, key |-> decode_operation(c.op),
     groups |-> Workgroups(b), size |-> Len(b.staging)]

\* a compute pass whose output reaches the staging buffer only, the storage
\* buffer keeping the data it was created with
RunCommand_Scratch(tbl, cmd) ==
    IF cmd.id \in DOMAIN tbl THEN
        LET b == tbl[cmd.id]
            st == RunShader(cmd.key, b.storage, cmd.groups)
        IN  [tbl EXCEPT ![cmd.id].staging = CopyBufferToBuffer(st, b.staging, cmd.size)]
    ELSE tbl

\* a command buffer whose copy runs before its compute pass
RunCommand_CopyFirst(tbl, cmd) ==
    IF cmd.id \in DOMAIN tbl THEN
        LET b == tbl[cmd.id]
        IN  [tbl EXCEPT ![cmd.id].staging = CopyBufferToBuffer(b.storage, b.staging, cmd.size),
                        ![cmd.id].storage = RunShader(cmd.key, b.storage, cmd.groups)]
    ELSE tbl

\* a device whose compute pass and copy run on every buffer set of the table
RunCommand_Shared(tbl, cmd) ==
    [k \in DOMAIN tbl |->
        LET st == RunShader(cmd.key, tbl[k].storage, cmd.groups)
        IN  [tbl[k] EXCEPT !.storage = st,
                           !.staging = CopyBufferToBuffer(st, tbl[k].staging, cmd.size)]]

\* the device running one command buffer: the compute pass, then the copy
RunCommand(tbl, cmd) ==
    IF cmd.id \in DOMAIN tbl THEN
        LET b == tbl[cmd.id]
            st == RunShader(cmd.key, b.storage, cmd.groups)
        IN  [tbl EXCEPT ![cmd.id].storage = st,
                        ![cmd.id].staging = CopyBufferToBuffer(st, b.staging, cmd.size)]
    ELSE tbl

RECURSIVE RunQueue(_, _)
\* the device running the submitted command buffers in submission order
RunQueue(tbl, q) ==
    IF q = <<>> THEN tbl ELSE RunQueue(RunCommand(tbl, Head(q)), Tail(q))

\* the pending map_async requests answered once the device is idle
ResolveMaps(tbl, ok) ==
    [k \in DOMAIN tbl |->
        IF tbl[k].map = "Waiting"
        THEN [tbl[k] EXCEPT !.map = IF ok THEN "Active" ELSE "Failed"]
        ELSE tbl[k]]

\* the callers whose map callback runs in this poll
Notified(tbl) == {tbl[k].mapper : k \in {i \in DOMAIN tbl : tbl[i].map = "Waiting"}}

\* ------------------------------------------------------------- execute_op

\* the call's thread unwinding out of execute_op
Panic(t, fn, id, msg) ==
    /\ pc' = [pc EXCEPT ![t] = "panicked"]
    /\ call' = [call EXCEPT ![t] = IdleCall]
    /\ lock' = Release(lock, t, TRUE)
    /\ last' = Outcome(t, fn, id, "panic", msg, <<>>)

\* a lookup that waits until no other call holds a guard of the table
ExecuteOp_Exclusive(t, id, op) ==
    /\ pc[t] = "idle"
    /\ ex.built
    /\ IF ex.adapter = 0 \/ ~ex.hasShaders THEN
           /\ last' = Outcome(t, "execute_op", id, "Err", "Not operations loaded", <<>>)
           /\ UNCHANGED <<lock, pc, call>>
       ELSE
           /\ lock.writer = 0 /\ lock.readers = {}
           /\ IF lock.poisoned THEN Panic(t, "execute_op", id, "PoisonError")
              ELSE IF id \notin DOMAIN buffers THEN Panic(t, "execute_op", id, UnwrapNone)
              ELSE
                  /\ buffers[id].runs < MaxRuns
                  /\ lock' = [lock EXCEPT !.readers = @ \cup {t}]
                  /\ pc' = [pc EXCEPT ![t] = "looked"]
                  /\ call' = [call EXCEPT ![t] =
                                [IdleCall EXCEPT !.fn = "execute_op", !.id = id, !.op = op,
                                                 !.before = buffers[id].storage]]
                  /\ UNCHANGED last
    /\ UNCHANGED <<ex, ctxs, buffers, queue, chan, wrapper>>

\* execute_op without the check of self.shaders
ExecuteOp_NoShadersCheck(t, id, op) ==
    /\ pc[t] = "idle"
    /\ ex.built
    /\ IF ex.adapter = 0 THEN
           /\ last' = Outcome(t, "execute_op", id, "Err", "Not operations loaded", <<>>)
           /\ UNCHANGED <<lock, pc, call>>
       ELSE
           /\ lock.writer = 0
           /\ IF lock.poisoned THEN Panic(t, "execute_op", id, "PoisonError")
              ELSE IF id \notin DOMAIN buffers THEN Panic(t, "execute_op", id, UnwrapNone)
              ELSE
                  /\ buffers[id].runs < MaxRuns
                  /\ lock' = [lock EXCEPT !.readers = @ \cup {t}]
                  /\ pc' = [pc EXCEPT ![t] = "looked"]
                  /\ call' = [call EXCEPT ![t] =
                                [IdleCall EXCEPT !.fn = "execute_op", !.id = id, !.op = op,
                                                 !.before = buffers[id].storage]]
                  /\ UNCHANGED last
    /\ UNCHANGED <<ex, ctxs, buffers, queue, chan, wrapper>>

\* Executor::execute_op (execution.rs:163-179): the adapter and shaders
\* checks, self.buffers.read().unwrap(), buffers.get(id).unwrap()
ExecuteOp(t, id, op) ==
    /\ pc[t] = "idle"
    /\ ex.built
    /\ IF ex.adapter = 0 \/ ~ex.hasShaders THEN
           /\ last' = Outcome(t, "execute_op", id, "Err", "Not operations loaded", <<>>)
           /\ UNCHANGED <<lock, pc, call>>
       ELSE
           /\ lock.writer = 0
           /\ IF lock.poisoned THEN Panic(t, "execute_op", id, "PoisonError")
              ELSE IF id \notin DOMAIN buffers THEN Panic(t, "execute_op", id, UnwrapNone)
              ELSE
                  /\ buffers[id].runs < MaxRuns
                  /\ lock' = [lock EXCEPT !.readers = @ \cup {t}]
                  /\ pc' = [pc EXCEPT ![t] = "looked"]
                  /\ call' = [call EXCEPT ![t] =
                                [IdleCall EXCEPT !.fn = "execute_op", !.id = id, !.op = op,
                                                 !.before = buffers[id].storage]]
                  /\ UNCHANGED last
    /\ UNCHANGED <<ex, ctxs, buffers, queue, chan, wrapper>>

\* a submission after which the call no longer holds its read guard
ExecSubmit_DropsGuard(t) ==
    /\ pc[t] = "looked"
    /\ decode_operation(call[t].op) \in ex.shaders
    /\ buffers[call[t].id].map \notin {"Waiting", "Active"}
    /\ queue' = Append(queue, Command(call[t], buffers[call[t].id]))
    /\ buffers' = [buffers EXCEPT ![call[t].id].runs = @ + 1]
    /\ pc' = [pc EXCEPT ![t] = "submitted"]
    /\ lock' = Release(lock, t, FALSE)
    /\ UNCHANGED <<ex, ctxs, call, chan, last, wrapper>>

\* Executor::execute_op (execution.rs:181-275): the bind group, the pipeline
\* with shaders.index(decode_operation(operation)), the encoder, queue.submit
ExecSubmit(t) ==
    /\ pc[t] = "looked"
    /\ LET c == call[t]
           b == buffers[c.id]
       IN  IF decode_operation(c.op) \notin ex.shaders THEN
               /\ Panic(t, "execute_op", c.id, "HashMap index: key not found")
               /\ UNCHANGED <<buffers, queue>>
           ELSE IF b.map \in {"Waiting", "Active"} THEN
               /\ Panic(t, "execute_op", c.id, "Queue::submit: buffer is still mapped")
               /\ UNCHANGED <<buffers, queue>>
           ELSE
               /\ queue' = Append(queue, Command(c, b))
               /\ buffers' = [buffers EXCEPT ![c.id].runs = @ + 1]
               /\ pc' = [pc EXCEPT ![t] = "submitted"]
               /\ UNCHANGED <<lock, call, last>>
    /\ UNCHANGED <<ex, ctxs, chan, wrapper>>

\* Executor::execute_op (execution.rs:278-281): staging_buffer.slice(..),
\* flume::bounded(1), map_async with the callback that sends the result
ExecMapAsync(t) ==
    /\ pc[t] = "submitted"
    /\ LET c == call[t]
           b == buffers[c.id]
       IN  IF b.map = "Idle" THEN
               /\ buffers' = [buffers EXCEPT ![c.id].map = "Waiting", ![c.id].mapper = t]
               /\ chan' = [chan EXCEPT ![t] = <<>>]
               /\ pc' = [pc EXCEPT ![t] = "mapping"]
               /\ UNCHANGED <<lock, call, last>>
           ELSE
               /\ Panic(t, "execute_op", c.id, "Buffer is already mapped")
               /\ UNCHANGED <<buffers, chan>>
    /\ UNCHANGED <<ex, ctxs, queue, wrapper>>

\* Executor::execute_op (execution.rs:286): device.poll(Maintain::wait()):
\* the device finishes what was submitted and the map callbacks run, each
\* sending its result on its channel (execution.rs:281)
ExecPoll(t, ok) ==
    /\ pc[t] = "mapping"
    /\ LET ran == RunQueue(buffers, queue)
       IN  /\ buffers' = ResolveMaps(ran, ok)
           /\ chan' = [u \in Threads |->
                         IF u \in Notified(ran)
                         THEN Append(chan[u], IF ok THEN "Ok" ELSE "Err")
                         ELSE chan[u]]
    /\ queue' = <<>>
    /\ pc' = [pc EXCEPT ![t] = "polled"]
    /\ UNCHANGED <<ex, ctxs, lock, call, last, wrapper>>

\* a readback that on a failed mapping goes back to submit again
ExecRecv_Retry(t) ==
    /\ pc[t] = "polled"
    /\ chan[t] # <<>>
    /\ chan' = [chan EXCEPT ![t] = <<>>]
    /\ IF Head(chan[t]) = "Ok" THEN
           /\ buffers' = [buffers EXCEPT ![call[t].id].views = @ + 1]
           /\ call' = [call EXCEPT ![t].result = CastBytesToU32(buffers[call[t].id].staging)]
           /\ pc' = [pc EXCEPT ![t] = "copied"]
       ELSE
           /\ pc' = [pc EXCEPT ![t] = "looked"]
           /\ UNCHANGED <<buffers, call>>
    /\ UNCHANGED <<ex, ctxs, lock, queue, last, wrapper>>

\* a readback that copies the staging buffer whatever the callback reported
ExecRecv_Unchecked(t) ==
    /\ pc[t] = "polled"
    /\ chan[t] # <<>>
    /\ chan' = [chan EXCEPT ![t] = <<>>]
    /\ buffers' = [buffers EXCEPT ![call[t].id].views = @ + 1]
    /\ call' = [call EXCEPT ![t].result = CastBytesToU32(buffers[call[t].id].staging)]
    /\ pc' = [pc EXCEPT ![t] = "copied"]
    /\ UNCHANGED <<ex, ctxs, lock, queue, last, wrapper>>

\* Executor::execute_op (execution.rs:289-293, 305-307):
\* receiver.recv_async().await; on Ok(Ok(())) get_mapped_range and the copy
\* into the result Vec<u32>, otherwise the Err return
ExecRecv(t) ==
    /\ pc[t] = "polled"
    /\ chan[t] # <<>>
    /\ chan' = [chan EXCEPT ![t] = <<>>]
    /\ LET c == call[t]
       IN  IF Head(chan[t]) = "Ok" THEN
               /\ buffers' = [buffers EXCEPT ![c.id].views = @ + 1]
               /\ call' = [call EXCEPT ![t].result = CastBytesToU32(buffers[c.id].staging)]
               /\ pc' = [pc EXCEPT ![t] = "copied"]
               /\ UNCHANGED <<lock, last>>
           ELSE
               /\ last' = Outcome(t, "execute_op", c.id, "Err", "failed to run compute on gpu!", <<>>)
               /\ lock' = Release(lock, t, FALSE)
               /\ call' = [call EXCEPT ![t] = IdleCall]
               /\ pc' = [pc EXCEPT ![t] = "idle"]
               /\ UNCHANGED buffers
    /\ UNCHANGED <<ex, ctxs, queue, wrapper>>

\* the buffer unmapped while the mapped view is still held
ExecDropView_UnmapFirst(t) ==
    /\ pc[t] = "copied"
    /\ buffers' = [buffers EXCEPT ![call[t].id].map = "Idle", ![call[t].id].mapper = 0]
    /\ pc' = [pc EXCEPT ![t] = "view_dropped"]
    /\ UNCHANGED <<ex, ctxs, lock, call, queue, chan, last, wrapper>>

\* Executor::execute_op (execution.rs:297): drop(data), the mapped view
ExecDropView(t) ==
    /\ pc[t] = "copied"
    /\ buffers' = [buffers EXCEPT ![call[t].id].views = @ - 1]
    /\ pc' = [pc EXCEPT ![t] = "view_dropped"]
    /\ UNCHANGED <<ex, ctxs, lock, call, queue, chan, last, wrapper>>

\* Executor::execute_op (execution.rs:298-304): staging_buffer.unmap(),
\* Ok(result), the read guard dropped on return
ExecUnmap(t) ==
    /\ pc[t] = "view_dropped"
    /\ buffers' = [buffers EXCEPT ![call[t].id].map = "Idle", ![call[t].id].mapper = 0]
    /\ last' = Outcome(t, "execute_op", call[t].id, "Ok", "", call[t].result)
    /\ lock' = Release(lock, t, FALSE)
    /\ call' = [call EXCEPT ![t] = IdleCall]
    /\ pc' = [pc EXCEPT ![t] = "idle"]
    /\ UNCHANGED <<ex, ctxs, queue, chan, wrapper>>

\* ------------------------------------------------------ the specification

\* the steps inside a call, the same under every way of calling
Steps(t) ==
    \/ DropRemove(t)
    \/ SetupInsert(t)
    \/ ExecSubmit(t)
    \/ ExecMapAsync(t)
    \/ \E ok \in BOOLEAN : ExecPoll(t, ok)
    \/ ExecRecv(t)
    \/ ExecDropView(t)
    \/ ExecUnmap(t)

\* callers using the Executor's own interface, with identifiers of their choice
Next ==
    \E t \in Threads :
        \/ ExecutorDefault(t)
        \/ \E p \in Platforms : ExecutorNew(t, p)
        \/ \E id \in Ids : DropLock(t, id)
        \/ \E id \in Ids, data \in DataInputs : SetupBuffers(t, ShapeOf(data), data, id)
        \/ \E id \in Ids, op \in Requested : ExecuteOp(t, id, op)
        \/ Steps(t)

Spec == Init /\ [][Next]_vars

\* every call is straight-line code on a running thread and the device
\* completes what was submitted to it: a call that can take its next step
\* takes it
SpecFair == Spec /\ \A t \in Threads : WF_vars(Steps(t))

\* ------------------------------------------- the layer above the Executor
\* The static Executor the Array type works with (execution.rs:59) and the
\* identifiers it generates are not part of execution.rs; they are modelled
\* from the specification of the Device Context and of the ArrayHandle.

\* acquire(): the first caller takes the uninitialised cell
AcquireBegin(t) ==
    /\ pc[t] = "idle"
    /\ wrapper.cell = "empty"
    /\ wrapper' = [wrapper EXCEPT !.cell = "running", !.by = t]
    /\ UNCHANGED code

\* a cell that a panicking initialiser leaves empty, for the next caller to fill
AcquireInit_Retry(t, p) ==
    /\ wrapper.cell = "running" /\ wrapper.by = t
    /\ new(t, p)
    /\ wrapper' = [wrapper EXCEPT !.by = 0,
                      !.cell = IF last'.res = "Ok" THEN "set" ELSE "empty"]

\* acquire(): the caller holding the cell runs Executor::new; success sets the
\* cell, an error leaves it empty for the next caller, a panic poisons it
AcquireInit(t, p) ==
    /\ wrapper.cell = "running" /\ wrapper.by = t
    /\ new(t, p)
    /\ wrapper' = [wrapper EXCEPT !.by = 0,
                      !.cell = IF last'.res = "Ok" THEN "set"
                               ELSE IF last'.res = "Err" THEN "empty"
                               ELSE "poisoned"]

\* acquire(): a caller that finds the cell set observes the context in it
AcquireGet(t) ==
    /\ pc[t] = "idle"
    /\ wrapper.cell = "set"
    /\ last' = Outcome(t, "acquire", "", "Ok", "", <<U(ex.adapter)>>)
    /\ UNCHANGED <<ex, ctxs, buffers, lock, pc, call, queue, chan, wrapper>>

\* create_array(shape, data): a process-unique identifier is generated and the
\* buffer set is built from the data by setup_buffers
CreateArray(t, data) ==
    /\ wrapper.cell = "set"
    /\ \E id \in Ids \ DOMAIN wrapper.arrays :
          /\ setup_buffers(t, ShapeOf(data), data, id)
          /\ wrapper' = [wrapper EXCEPT
                            !.arrays = [k \in DOMAIN wrapper.arrays \cup {id} |->
                                          IF k = id THEN data ELSE wrapper.arrays[k]]]

\* dispatch(identifier, operation) through a live ArrayHandle
Dispatch(t, id, op) ==
    /\ wrapper.cell = "set"
    /\ id \in DOMAIN buffers
    /\ ExecuteOp(t, id, op)

\* release(identifier): the disposal of a live ArrayHandle
Dispose(t, id) ==
    /\ wrapper.cell = "set"
    /\ id \in DOMAIN buffers
    /\ DropLock(t, id)

\* callers going through the static Executor and ArrayHandles
NextWrapped ==
    \E t \in Threads :
        \/ AcquireBegin(t)
        \/ \E p \in Platforms : AcquireInit(t, p)
        \/ AcquireGet(t)
        \/ \E data \in DataInputs : CreateArray(t, data)
        \/ \E id \in Ids, op \in Requested : Dispatch(t, id, op)
        \/ \E id \in Ids : Dispose(t, id)
        \/ Steps(t)

SpecWrapped == Init /\ [][NextWrapped]_vars


\* ------------------------------------------------------------- the claims

\* 2 * x in 32 bits, on the halves of a host u32
Twice(x) == <<(2 * x[1]) % 65536, (2 * x[2] + (2 * x[1]) \div 65536) % 65536>>

\* C1: after setup_buffers(id) and drop(id) the table has no entry for id, and a
\* drop of an identifier that is absent completes without error and leaves the
\* table exactly as it was.
C1_DropRemovesAndIsIdempotent ==
    /\ [](last.fn = "drop" => last.res = "Ok" /\ last.id \notin DOMAIN buffers)
    /\ [][\A t \in Threads :
            DropRemove(t) /\ call[t].id \notin DOMAIN buffers => buffers' = buffers]_vars

\* a drop has just removed an entry that setup_buffers had inserted
C1_Witness ==
    last.fn = "drop" /\ last.res = "Ok" /\ last.msg = "removed"
        /\ last.id \notin DOMAIN buffers

\* C2: execute_op on an identifier that is not in the table returns an error
\* value to the caller; it never panics.
C2_UnknownIdIsAnError ==
    last.fn = "execute_op" /\ last.id \notin DOMAIN buffers => last.res = "Err"

\* C3: execute_op with an operation whose key is not in the loaded registry
\* returns an error value, leaves the table unchanged and submits nothing.
C3_AbsentShaderIsAnError ==
    [][\A t \in Threads :
          pc[t] = "looked" /\ pc'[t] # "looked"
              /\ decode_operation(call[t].op) \notin ex.shaders
          => last'.res = "Err" /\ pc'[t] = "idle"
                 /\ buffers' = buffers /\ queue' = queue]_vars

C7_ViewOnlyWhileMapped ==
    /\ \A id \in DOMAIN buffers :
          LET b == buffers[id]
          IN  /\ b.views = Cardinality({t \in Threads : pc[t] = "copied" /\ call[t].id = id})
              /\ b.views > 0 => b.map = "Active"
              /\ b.map \in {"Waiting", "Active"} =>
                    /\ pc[b.mapper] \in {"mapping", "polled", "copied", "view_dropped"}
                    /\ call[b.mapper].id = id
    /\ \A t \in Threads :
          /\ pc[t] \in {"copied", "view_dropped"} =>
                /\ buffers[call[t].id].map = "Active"
                /\ buffers[call[t].id].mapper = t
                /\ call[t].result = CastBytesToU32(buffers[call[t].id].staging)
          /\ pc[t] \in {"idle", "panicked"} => call[t] = IdleCall

\* a call has copied the mapped range and released the view; the buffer is
\* still mapped
C7_Witness ==
    \E t \in Threads :
        /\ pc[t] = "view_dropped"
        /\ buffers[call[t].id].map = "Active"
        /\ buffers[call[t].id].views = 0
        /\ call[t].result # <<>>

\* C8: a dispatch that fails leaves the table as it found it: the same
\* identifiers, the storage of its array untouched, the lock neither held by the
\* failed call nor poisoned.
C8_FailedDispatchLeavesTable ==
    [][\A t \in Threads :
          call[t].fn = "execute_op" /\ call'[t] = IdleCall /\ last'.res # "Ok"
          => /\ DOMAIN buffers' = DOMAIN buffers
             /\ buffers'[call[t].id].storage = call[t].before
             /\ t \notin lock'.readers /\ ~lock'.poisoned]_vars

\* C9: Executor::new reports a missing adapter and a rejected device request
\* as error values; no Executor is produced and nothing panics.
C9_InitFailuresAreErrors ==
    last.fn = "new" /\ last.msg \in {"Found no adapters.", "Error requesting device."}
        => last.res = "Err" /\ ~ex.built

\* C10: on an Executor without adapter setup_buffers returns an error, takes
\* no step towards an insert and leaves the table empty.
C10_SetupWithoutAdapterFails ==
    ex.built /\ ex.adapter = 0
    => /\ buffers = <<>>
       /\ \A t \in Threads : pc[t] # "setup_locked"
       /\ last.fn = "setup_buffers" =>
             last.res = "Err" /\ last.msg = "No operations loaded"

\* setup_buffers has returned its error on a default Executor
C10_Witness ==
    ex.built /\ ex.adapter = 0 /\ last.fn = "setup_buffers" /\ last.res = "Err"
        /\ buffers = <<>>

\* data doubled k times
RECURSIVE TwiceK(_, _)
TwiceK(data, k) ==
    IF k = 0 THEN data ELSE TwiceK([i \in 1..Len(data) |-> Twice(data[i])], k - 1)

\* the command buffers submitted for id that the device has not run yet
Pending(id) == Cardinality({i \in 1..Len(queue) : queue[i].id = id})

Dispatching == {"looked", "submitted", "mapping", "polled", "copied", "view_dropped"}

\* C11: on an Executor built with an adapter but without a readable shader
\* directory every execute_op, whatever the operation and the identifier,
\* returns an error value: no call gets past the checks, nothing is submitted
\* and every buffer set is as setup_buffers made it.
C11_NoRegistryEveryDispatchFails ==
    ex.built /\ ex.adapter # 0 /\ ~ex.hasShaders
    => /\ \A t \in Threads : pc[t] \notin Dispatching
       /\ queue = <<>>
       /\ \A id \in DOMAIN buffers :
             buffers[id] = NewBuffers(ShapeOf(buffers[id].src), buffers[id].src)
       /\ last.fn = "execute_op" => last.res = "Err"

\* Executor::new has succeeded without a registry and a dispatch on an array
\* of the table has returned its error
C11_Witness ==
    ex.built /\ ex.adapter # 0 /\ ~ex.hasShaders /\ ex.shaders = {}
        /\ last.fn = "execute_op" /\ last.res = "Err" /\ last.id \in DOMAIN buffers

\* C12: every buffer set, in the table or about to be inserted, has a storage
\* and a staging buffer of the same size in bytes.
C12_StorageAndStagingSameSize ==
    /\ \A id \in DOMAIN buffers :
          Len(buffers[id].storage) = Len(buffers[id].staging)
    /\ \A t \in Threads :
          pc[t] = "setup_locked" =>
              Len(call[t].bufs[1].storage) = Len(call[t].bufs[1].staging)

\* an array that was dispatched on and then replaced by setup_buffers
C12_Witness ==
    \E id \in DOMAIN buffers, t \in Threads :
        /\ buffers[id].runs >= 1
        /\ Len(buffers[id].staging) = 4 * MaxLen
        /\ pc[t] = "setup_locked"

\* C13: the shape buffer of every array is sixteen bytes, four u32 that are in
\* order the dimensions setup_buffers was given.
C13_ShapeBufferIsFourU32 ==
    \A id \in DOMAIN buffers :
        /\ Len(buffers[id].dims) = 16
        /\ ShapeSeen(buffers[id]) = [i \in 1..4 |-> U(ShapeOf(buffers[id].src)[i])]

\* the callers holding the table for an insert or a remove
Writers == {t \in Threads : pc[t] \in {"setup_locked", "drop_locked"}}

\* the callers holding the table for a lookup
Readers == {t \in Threads : pc[t] \in Dispatching}

\* C14: while an insert or a remove holds the table no other call holds it,
\* and while a lookup holds it no insert and no remove does; the lock records
\* exactly the holders.
C14_ReaderWriterExclusion ==
    /\ Cardinality(Writers) <= 1
    /\ Writers # {} => Readers = {}
    /\ lock.readers = Readers
    /\ lock.writer = (IF Writers = {} THEN 0 ELSE CHOOSE t \in Writers : TRUE)

\* a remove holds the table of an array that was dispatched on before; the
\* other caller holds nothing
C14_Witness ==
    \E t \in Threads :
        /\ pc[t] = "drop_locked" /\ lock.writer = t
        /\ call[t].id \in DOMAIN buffers /\ buffers[call[t].id].runs >= 1
        /\ Writers = {t} /\ Readers = {}

\* C15: while a dispatch on one identifier has submitted and not yet finished
\* its readback, a caller can look up any other array of the table, and a
\* dispatch in flight on another identifier can take its next step, up to its
\* return, without a panic.
C15_OtherIdsProceed ==
    \A t \in Threads : \A u \in Threads \ {t} :
        pc[t] \in {"submitted", "mapping", "polled"} =>
            /\ pc[u] = "idle" =>
                  \A id \in DOMAIN buffers \ {call[t].id} : \A op \in Requested :
                      buffers[id].runs < MaxRuns =>
                          ENABLED (ExecuteOp(u, id, op) /\ pc'[u] = "looked")
            /\ (/\ pc[u] \in Dispatching
                /\ call[u].id # call[t].id
                /\ decode_operation(call[u].op) \in ex.shaders
                /\ buffers[call[u].id].map # "Failed")
               => ENABLED (Steps(u) /\ pc'[u] # "panicked")

\* one dispatch has requested its mapping and not polled yet while a dispatch
\* on another identifier has copied its result
C15_Witness ==
    \E t \in Threads : \E u \in Threads \ {t} :
        /\ pc[t] = "mapping" /\ pc[u] = "view_dropped"
        /\ call[t].id # call[u].id
        /\ call[u].result = TwiceK(buffers[call[u].id].src, buffers[call[u].id].runs)

\* C16: no two execute_op calls on the same identifier are at the same time
\* between their lookup and their return.
C16_OneDispatchPerId ==
    \A t \in Threads : \A u \in Threads \ {t} :
        ~(pc[t] \in Dispatching /\ pc[u] \in Dispatching /\ call[t].id = call[u].id)

\* the steps of one execute_op call, from the point it leaves to the point it
\* reaches: Idle, looked up, Submitted, MappingRequested, notified (Mapped or
\* MapFailed), copied, view released, and back to Idle; a panic ends a call
\* before its mapping request is accepted
DispatchOrder ==
    {<<"idle", "looked">>, <<"looked", "submitted">>, <<"submitted", "mapping">>,
     <<"mapping", "polled">>, <<"polled", "copied">>, <<"copied", "view_dropped">>,
     <<"view_dropped", "idle">>, <<"polled", "idle">>,
     <<"looked", "panicked">>, <<"submitted", "panicked">>}

\* C17: an execute_op call moves only along Idle, Submitted, MappingRequested,
\* Mapped or MapFailed, Copied and Unmapped, Idle: it requests the mapping
\* only after its submission, copies only after its callback reported success
\* on a mapped buffer, returns a result only after the copy, the release of
\* the view and the unmap, and returns the error straight from MapFailed.
C17_DispatchStateOrder ==
    [][/\ (last' # last /\ last'.fn = "execute_op" /\ last'.res = "Ok") =>
              \E t \in Threads : pc[t] = "view_dropped" /\ pc'[t] = "idle"
       /\ \A t \in Threads :
          (pc'[t] # pc[t] /\ (pc[t] \in Dispatching \/ pc'[t] \in Dispatching)) =>
              /\ <<pc[t], pc'[t]>> \in DispatchOrder
              /\ pc'[t] = "submitted" => Len(queue') = Len(queue) + 1
              /\ pc'[t] = "mapping" => buffers'[call[t].id].map = "Waiting"
              /\ pc'[t] = "copied" =>
                    /\ Head(chan[t]) = "Ok"
                    /\ buffers[call[t].id].map = "Active"
              /\ (pc[t] = "polled" /\ pc'[t] = "idle") =>
                    /\ Head(chan[t]) = "Err"
                    /\ last'.res = "Err"
              /\ (pc[t] = "view_dropped" /\ pc'[t] = "idle") =>
                    /\ last'.res = "Ok" /\ last'.val = call[t].result
                    /\ buffers'[call[t].id].map = "Idle"
                    /\ buffers'[call[t].id].views = 0]_vars

\* a call is in MapFailed: its callback has reported the failure and the call
\* has not returned yet
C17_Witness ==
    \E t \in Threads :
        pc[t] = "polled" /\ chan[t] = <<"Err">> /\ buffers[call[t].id].map = "Failed"

\* C18: every execute_op call that has submitted its command buffer
\* eventually returns to its caller, with the result or with the readback
\* error.
C18_SubmittedCallReturns ==
    \A t \in Threads : (pc[t] = "submitted") ~> (pc[t] = "idle")

\* C19: a call whose callback reported a failed mapping returns the error at
\* once, with no view taken, nothing submitted and no buffer touched; a command
\* buffer is submitted only by a call coming from its lookup, one at a time, a
\* mapping is requested only by a call coming from its submission, and a call
\* is at its lookup only on entry, so each call submits and requests once.
C19_FailedReadbackNoRetry ==
    [][/\ \A t \in Threads :
             /\ (pc[t] = "polled" /\ pc'[t] # "polled" /\ Head(chan[t]) = "Err") =>
                   /\ pc'[t] = "idle" /\ call'[t] = IdleCall
                   /\ last' = Outcome(t, "execute_op", call[t].id, "Err",
                                      "failed to run compute on gpu!", <<>>)
                   /\ buffers' = buffers /\ queue' = queue
             /\ (pc'[t] = "looked" /\ pc[t] # "looked") => pc[t] = "idle"
             /\ (pc'[t] = "submitted" /\ pc[t] # "submitted") => pc[t] = "looked"
       /\ Len(queue') > Len(queue) =>
             /\ Len(queue') = Len(queue) + 1
             /\ \E t \in Threads : pc[t] = "looked" /\ pc'[t] = "submitted"
       /\ \A id \in DOMAIN buffers \cap DOMAIN buffers' :
             (buffers'[id].map = "Waiting" /\ buffers[id].map # "Waiting") =>
                 \E t \in Threads :
                     pc[t] = "submitted" /\ pc'[t] = "mapping" /\ call[t].id = id]_vars

\* a dispatch has returned the readback error after its one submission
C19_Witness ==
    /\ last.fn = "execute_op" /\ last.res = "Err"
    /\ last.msg = "failed to run compute on gpu!"
    /\ last.id \in DOMAIN buffers
    /\ buffers[last.id].runs = 1 /\ buffers[last.id].views = 0
    /\ queue = <<>>
    /\ \A t \in Threads : pc[t] = "idle"

\* C20: what a dispatch copies for its caller is the whole storage buffer as
\* it is after the operation ran: as many elements as the array has, equal to
\* the storage content, and the content found at the lookup doubled at least
\* once.
C20_ResultIsStorageAfterOperation ==
    \A t \in Threads :
        pc[t] \in {"copied", "view_dropped"} =>
            LET b == buffers[call[t].id]
            IN  /\ Len(call[t].result) = Len(b.src)
                /\ call[t].result = CastBytesToU32(b.storage)
                /\ \E k \in 1..b.runs :
                      call[t].result = TwiceK(CastBytesToU32(call[t].before), k)

\* a call holds a copy that is the storage content and differs from the
\* content it found at its lookup in every element
C20_Witness ==
    \E t \in Threads :
        /\ pc[t] = "copied"
        /\ call[t].result = CastBytesToU32(buffers[call[t].id].storage)
        /\ Len(call[t].result) = MaxLen
        /\ \A i \in 1..MaxLen :
              call[t].result[i] # CastBytesToU32(call[t].before)[i]

\* C21: every submitted command buffer dispatches as many workgroups in x as
\* its array has elements.
C21_WorkgroupsAreElementCount ==
    \A i \in 1..Len(queue) :
        queue[i].groups = Len(buffers[queue[i].id].src)

\* C22: a dispatch for which neither the operation's shader nor the identifier
\* is there ends with the failure of the operation, and the failure of the
\* lookup is what a call ends with only when the operation's shader is loaded.
C22_OperationBeforeIdentifier ==
    [][\A t \in Threads : \A id \in Ids : \A op \in Requested :
          (/\ ExecuteOp(t, id, op)
           /\ ex.adapter # 0 /\ ex.hasShaders
           /\ id \notin DOMAIN buffers)
          => /\ decode_operation(op) \notin ex.shaders => last'.msg # UnwrapNone
             /\ last'.msg = UnwrapNone => decode_operation(op) \in ex.shaders]_vars

\* C23: a dispatch holds its read guard from its lookup to its return: while
\* it is in flight its identifier is in the table, no insert or remove holds
\* the table, and no caller can start a drop, of this or of any identifier.
C23_NoRemoveUnderDispatch ==
    \A t \in Threads :
        pc[t] \in Dispatching =>
            /\ call[t].id \in DOMAIN buffers
            /\ t \in lock.readers /\ lock.writer = 0
            /\ \A u \in Threads : pc[u] \notin {"drop_locked", "setup_locked"}
            /\ \A u \in Threads : \A id \in Ids : ~ENABLED DropLock(u, id)

\* a dispatch is past its submission, the other caller is idle and its drop
\* of the dispatched identifier has to wait
C23_Witness ==
    \E t \in Threads : \E u \in Threads \ {t} :
        /\ pc[t] \in {"submitted", "mapping", "polled", "copied", "view_dropped"}
        /\ pc[u] = "idle"
        /\ call[t].id \in DOMAIN buffers
        /\ ~ENABLED DropLock(u, call[t].id)

C25_SetupReplaces ==
    /\ [][\A t \in Threads :
             (pc[t] = "setup_locked" /\ pc'[t] # "setup_locked"
                  /\ call[t].id \in DOMAIN buffers)
             => /\ last'.fn = "setup_buffers" /\ last'.res = "Ok"
                /\ DOMAIN buffers' = DOMAIN buffers
                /\ buffers'[call[t].id] = call[t].bufs[1]
                /\ buffers'[call[t].id].storage = CastU32ToBytes(call[t].bufs[1].src)
                /\ \A i \in 1..Len(queue') : queue'[i].id # call[t].id]_vars
    /\ [](\A id \in DOMAIN buffers :
             buffers[id].runs = 0 =>
                 /\ buffers[id] = NewBuffers(ShapeOf(buffers[id].src), buffers[id].src)
                 /\ Pending(id) = 0)

\* setup_buffers has replaced a buffer set and a dispatch on the identifier
\* holds the new data doubled
C25_Witness ==
    \E t \in Threads :
        /\ pc[t] = "copied"
        /\ last.fn = "setup_buffers" /\ last.msg = "replaced" /\ last.id = call[t].id
        /\ call[t].result = TwiceK(buffers[call[t].id].src, 1)

\* C26: a step of execute_op leaves the set of identifiers of the table as it
\* is; the insert of setup_buffers(id) and the remove of drop(id) leave every
\* other identifier in the table with the buffer set it had.
C26_TableFrame ==
    [][\A t \in Threads :
          /\ (pc[t] \in Dispatching \/ pc'[t] \in Dispatching
                  \/ (last' # last /\ last'.fn = "execute_op"))
             => DOMAIN buffers' = DOMAIN buffers
          /\ (pc[t] \in {"setup_locked", "drop_locked"} /\ pc'[t] # pc[t])
             => /\ DOMAIN buffers' \ {call[t].id} = DOMAIN buffers \ {call[t].id}
                /\ \A k \in DOMAIN buffers \ {call[t].id} : buffers'[k] = buffers[k]]_vars

\* a drop has removed one identifier and the other, dispatched on before, is
\* in the table with what its dispatch left
C26_Witness ==
    /\ last.fn = "drop" /\ last.msg = "removed"
    /\ \E k \in DOMAIN buffers :
          /\ k # last.id
          /\ buffers[k].runs = 1
          /\ CastBytesToU32(buffers[k].storage) = TwiceK(buffers[k].src, 1)

====
